---- MODULE Spec2Model ----
(***************************************************************************)
(* next-promise-cache: the API class (promise cache over fetch).           *)
(*                                                                         *)
(* The store is the insertion-ordered Map `this[cache]`, modelled as a     *)
(* sequence of entries [key, promise, timestamp] in iteration order.       *)
(* A promise is identified by its index in `promises` (the order in which  *)
(* the underlying operations were started).  Time is the value of          *)
(* `new Date().getTime()` in milliseconds.                                 *)
(***************************************************************************)
EXTENDS Integers, Sequences, FiniteSets

VARIABLES
    isServer,          \* typeof window === "undefined"
    defaultCacheTime,  \* this._defaultCacheTime (seconds)
    maxCacheSize,      \* this._maxCacheSize
    cache,             \* this[cache]
    promises,          \* every underlying operation started so far
    now,               \* new Date().getTime()
    view,              \* what a caller of getCacheStats holds as `values`
    last,              \* observation of the most recent call
    peer               \* this[cache] of a second instance of API

vars == <<isServer, defaultCacheTime, maxCacheSize, cache, promises, now, view, last, peer>>

----------------------------------------------------------------------------
(* Bounds of the model *)

MaxPromises == 3
MaxTicks == 2
MaxCacheTime == 1
MaxSizeLimit == 2

(* Program constants *)

MsPerSec == 1000
Unbounded == -1

\* the clock advances in half seconds
TickMs == MsPerSec \div 2
Wildcard == "*"
Undefined == "<undefined>"

\* request keys: URL paths for get, names for memo (they share one store).
\* The reserved key "*" is not among them: it is passed to invalidate only.
Keys == {"/a", "/b", "/c"}

\* two of them, where get and memo, or the settlements, share the paths
TwoKeys == {"/a", "/b"}
\* the function handed to memo
Producers == {"fn"}

\* a producer that throws when it is called, before it has made a promise
ThrowingProducers == {"fnThrows"}

\* a pathName that new URL(pathName, baseurl) throws on
BadPaths == {"http://["}
\* post, put, patch, delete, head, options: each passes its name to this[handler]
Verbs == {"post", "put", "patch", "delete", "head", "options"}
\* opts.responseType as most calls have it: absent (""), or a value of no
\* meaning; AllRespTypeArgs has every kind
RespTypeArgs == {"", "xml"}
\* the type ResponseTypes: the values the declarations, the readme and the
\* message of validate's error name
ResponseTypes == {"json", "text", "blob", "arrayBuffer", "formData"}
\* every kind of responseType a caller can write: absent, each declared
\* value, a declared value in another case, a value of no meaning
AllRespTypeArgs == {""} \cup ResponseTypes \cup {"arraybuffer", "xml"}
\* the cacheTime argument: <<>> is an absent one, <<n>> is n seconds
CacheTimeArgs == {<<>>} \cup {<<n>> : n \in 0..MaxCacheTime}

----------------------------------------------------------------------------
(* The Map operations the class uses *)

KeysOf(c) == {c[n].key : n \in 1..Len(c)}

MapHas(c, key) == key \in KeysOf(c)

IndexOf(c, key) == CHOOSE n \in 1..Len(c) : c[n].key = key

MapGet(c, key) == c[IndexOf(c, key)]

MapDelete(c, key) == SelectSeq(c, LAMBDA e : e.key # key)

\* Map.prototype.set: an existing key keeps its place, a new key goes last
MapSet(c, key, promise, timestamp) ==
    LET e == [key |-> key, promise |-> promise, timestamp |-> timestamp]
    IN  IF MapHas(c, key)
        THEN [c EXCEPT ![IndexOf(c, key)] = e]
        ELSE Append(c, e)

\* this[cache].keys().next().value
FirstKey(c) == IF c = <<>> THEN Undefined ELSE c[1].key

----------------------------------------------------------------------------
(* The private helpers of the class, as functions of the store.  Each helper
   is preceded by variants of it that carry one slip; a property that is to
   say something about the helper must fail for its variant. *)

\* slip: a key without an entry is treated like the wildcard
InvalidateAbsentClears(c, key) ==
    IF key = Wildcard \/ ~MapHas(c, key) THEN <<>> ELSE MapDelete(c, key)

\* slip: the wildcard spares the newest entry
InvalidateWildcardKeepsLast(c, key) ==
    IF key = Wildcard
    THEN (IF c = <<>> THEN c ELSE <<c[Len(c)]>>)
    ELSE IF MapHas(c, key) THEN MapDelete(c, key) ELSE c

\* slip: only the wildcard removes anything
InvalidateKeepsPresent(c, key) ==
    IF key = Wildcard THEN <<>> ELSE c

\* invalidate(key), as a function of the store
InvalidateStore(c, key) ==
    IF key = Wildcard
    THEN <<>>
    ELSE IF MapHas(c, key) THEN MapDelete(c, key) ELSE c

\* slip: entries expire on the server too
ShouldUseCacheNoServerRule(c, encodedPath, cacheTime) ==
    /\ MapHas(c, encodedPath)
    /\ now - MapGet(c, encodedPath).timestamp < cacheTime * MsPerSec

\* slip: <= for <
ShouldUseCacheInclusive(c, encodedPath, cacheTime) ==
    /\ MapHas(c, encodedPath)
    /\ \/ isServer
       \/ now - MapGet(c, encodedPath).timestamp <= cacheTime * MsPerSec

\* slip: the store is never consulted
ShouldUseCacheNever(c, encodedPath, cacheTime) == FALSE

\* slip: a cacheTime of 0 read as "no expiry"
ShouldUseCacheZeroIsForever(c, encodedPath, cacheTime) ==
    /\ MapHas(c, encodedPath)
    /\ \/ isServer
       \/ cacheTime = 0
       \/ now - MapGet(c, encodedPath).timestamp < cacheTime * MsPerSec

\* slip: an entry whose operation rejected is not served again
ShouldUseCacheRetriesFailures(c, encodedPath, cacheTime) ==
    /\ MapHas(c, encodedPath)
    /\ promises[MapGet(c, encodedPath).promise].state # "rejected"
    /\ \/ isServer
       \/ now - MapGet(c, encodedPath).timestamp < cacheTime * MsPerSec

\* this[shouldUseCache](encodedPath, cacheTime); cacheTime is in seconds
ShouldUseCache(c, encodedPath, cacheTime) ==
    /\ MapHas(c, encodedPath)
    /\ \/ isServer
       \/ now - MapGet(c, encodedPath).timestamp < cacheTime * MsPerSec

\* slip: the oldest entry goes one insertion early
CacheIsFullOffByOne(c) == maxCacheSize # Unbounded /\ Len(c) + 1 >= maxCacheSize

\* slip: >= for ===, and no test for the sentinel
CacheIsFullAtLeast(c) == Len(c) >= maxCacheSize

\* the "purge first in value when cache is full" branch of setCache
CacheIsFull(c) == maxCacheSize # Unbounded /\ Len(c) = maxCacheSize

\* slip: the newest entry is evicted, not the oldest
SetCacheEvictsLast(c, path, promise) ==
    LET purged == InvalidateStore(c, path)
        room   == IF CacheIsFull(purged) /\ purged # <<>>
                  THEN SubSeq(purged, 1, Len(purged) - 1)
                  ELSE purged
    IN  MapSet(room, path, promise, now)

\* slip: a full store gives up its first settled entry, and keeps the
\* operations that are still running
SetCacheEvictsSettled(c, path, promise) ==
    LET purged  == InvalidateStore(c, path)
        settled == SelectSeq(purged, LAMBDA e : promises[e.promise].state # "pending")
        victim  == IF settled # <<>> THEN settled[1].key ELSE FirstKey(purged)
        room    == IF CacheIsFull(purged)
                   THEN InvalidateStore(purged, victim)
                   ELSE purged
    IN  MapSet(room, path, promise, now)

\* slip: no purge of the path's entry: Map.set overwrites it where it stands
SetCacheKeepsPlace(c, path, promise) ==
    LET room == IF CacheIsFull(c) /\ ~MapHas(c, path)
                THEN InvalidateStore(c, FirstKey(c))
                ELSE c
    IN  MapSet(room, path, promise, now)

\* slip: the size is tested before the path's stale entry is purged
SetCachePurgesFullFirst(c, path, promise) ==
    LET room   == IF CacheIsFull(c)
                  THEN InvalidateStore(c, FirstKey(c))
                  ELSE c
        purged == InvalidateStore(room, path)
    IN  MapSet(purged, path, promise, now)

\* this[setCache](path, promise): purge the stale entry of the path, purge
\* the first entry when the store is full, insert with the current time
SetCache(c, path, promise) ==
    LET purged == InvalidateStore(c, path)
        room   == IF CacheIsFull(purged)
                  THEN InvalidateStore(purged, FirstKey(purged))
                  ELSE purged
    IN  MapSet(room, path, promise, now)

\* this[validate](responseType): TRUE when it does not throw
Validate(responseType) ==
    responseType \in {"json", "text", "blob", "arraybuffer", "formData"}

GetCacheStats == [values |-> cache, cacheSize |-> Len(cache)]

\* `values` is a reference to a Map: "none" before any call of getCacheStats,
\* "store" while it is the very Map this[cache] refers to, "detached" once
\* this[cache] = new Map() has made the store another object.
\* invalidate(key) as it bears on the reference
InvalidateView(v, key) ==
    IF key = Wildcard /\ v = "store" THEN "detached" ELSE v

\* this[setCache](path, promise) as it bears on the reference
SetCacheView(v, c, path) ==
    LET purged == InvalidateStore(c, path)
        first  == InvalidateView(v, path)
    IN  IF CacheIsFull(purged) THEN InvalidateView(first, FirstKey(purged)) ELSE first

----------------------------------------------------------------------------
(* What an underlying operation produces, and what the promise handed to the
   callers makes of it *)

\* a Response of fetch; body says whether its text parses as JSON
Response(status, body) == [type |-> "response", status |-> status, body |-> body]

\* the operation throws (fetch: a network failure; a producer: its rejection)
Throw(e) == [type |-> "throw", error |-> e]

\* a producer's promise resolves
Value(v) == [type |-> "value", value |-> v]

NetworkError == Throw("TypeError: fetch failed")

\* what fetch can produce: an answer with parsable or unparsable body, an
\* answer without success, an opaque answer (status 0), a network failure
FetchResults ==
    {Response(200, "json"), Response(200, "text"), Response(201, "text"),
     Response(404, "text"), Response(0, "text"), NetworkError}

\* what the promise of a producer can produce
ProducerResults == {Value("one"), Throw("boom")}

\* Response.ok
Ok(resp) == resp.status >= 200 /\ resp.status <= 299

Resolved(v) == [state |-> "resolved", value |-> v]

Rejected(e) == [state |-> "rejected", value |-> e]

\* slip: the status is the constant of the fallback
NextPromiseCacheErrorAlways500(resp) ==
    [name     |-> "Error",
     message  |-> <<"Server responded with status", resp.status>>,
     status   |-> 500,
     response |-> resp]

\* new NextPromiseCacheError(new Error(...), resp);
\* this.status = fetchResponse.status || 500
NextPromiseCacheError(resp) ==
    [name     |-> "Error",
     message  |-> <<"Server responded with status", resp.status>>,
     status   |-> IF resp.status = 0 THEN 500 ELSE resp.status,
     response |-> resp]

\* resp.json()
Json(resp) ==
    IF resp.body = "json" THEN Resolved(<<"parsed", resp>>) ELSE Rejected("SyntaxError")

\* resp.text(), and the other readers of the body
Body(resp, reader) == Resolved(<<reader, resp>>)

\* this[handleResp](resp, responseType)
HandleResp(resp, responseType) ==
    IF ~Ok(resp) THEN Rejected(NextPromiseCacheError(resp))
    ELSE IF responseType = "json" /\ resp.status > 200 /\ resp.status < 300
         THEN (IF Json(resp).state = "resolved" THEN Json(resp) ELSE Body(resp, "text"))
    ELSE IF responseType = "json" THEN Json(resp)
    ELSE IF responseType = "text" THEN Body(resp, "text")
    ELSE IF responseType = "blob" THEN Body(resp, "blob")
    ELSE IF responseType = "arrayBuffer" THEN Body(resp, "arrayBuffer")
    ELSE Body(resp, "formData")

\* slip: the error is logged and not thrown again
HandleErrorSwallows(e) == Resolved(Undefined)

\* this[handleError](e)
HandleError(e) == Rejected(e)

\* fetch(href, finalOpts).then(handleResp).catch(handleError), and the
\* try/catch of this[handler], which does the same
FetchChain(result, responseType) ==
    IF result.type = "throw"
    THEN HandleError(result.error)
    ELSE LET handled == HandleResp(result, responseType)
         IN  IF handled.state = "rejected" THEN HandleError(handled.value) ELSE handled

\* the promise fn() returned is handed out as it is
ProducerChain(result) ==
    IF result.type = "throw" THEN Rejected(result.error) ELSE Resolved(result.value)

\* the operations: fetch for get and for the mutating verbs, fn for memo
Fetch == "fetch"

ResultsOf(src) == IF src = Fetch THEN FetchResults ELSE ProducerResults

\* one result that succeeds and one that fails
TypicalResultsOf(src) ==
    IF src = Fetch THEN {Response(200, "json"), NetworkError} ELSE ProducerResults

Chain(src, result, responseType) ==
    IF src = Fetch THEN FetchChain(result, responseType) ELSE ProducerChain(result)

----------------------------------------------------------------------------
(* Observations *)

\* `last` records the most recent call: its name and key, the cacheTime in
\* effect, whether it returned normally, the promise it returned, the promise
\* it started (0 for none) and the store as it was before the call.
NoCall == [call |-> "none", key |-> "", ct |-> 0, ok |-> TRUE,
           ret |-> 0, started |-> 0, pre |-> <<>>]

Observe(call, key, ct, ok, ret, started) ==
    [call |-> call, key |-> key, ct |-> ct, ok |-> ok,
     ret |-> ret, started |-> started, pre |-> cache]

\* the promise chain of get (fetch.then.catch), or the promise fn() returns:
\* the key it was made for, the operation behind it and the responseType its
\* chain reads the answer with; once settled, what the operation produced
\* (result) and what the promise delivers (state, value)
NewPromise(key, src, responseType) ==
    [key |-> key, src |-> src, rt |-> responseType,
     state |-> "pending", result |-> Undefined, value |-> Undefined]

----------------------------------------------------------------------------
Init ==
    /\ isServer \in BOOLEAN
    /\ defaultCacheTime \in 0..MaxCacheTime
    /\ maxCacheSize \in {Unbounded} \cup 0..MaxSizeLimit
    /\ cache = <<>>
    /\ promises = <<>>
    /\ now = 0
    /\ view = "none"
    /\ last = NoCall
    /\ peer = <<>>

\* slip: with a window of 0 in client context nothing is stored
RequestSkipsZeroWindow(call, key, cacheTime, src, responseType) ==
    IF ShouldUseCache(cache, key, cacheTime)
    THEN /\ last' = Observe(call, key, cacheTime, TRUE, MapGet(cache, key).promise, 0)
         /\ UNCHANGED <<cache, promises, view>>
    ELSE /\ Len(promises) < MaxPromises
         /\ promises' = Append(promises, NewPromise(key, src, responseType))
         /\ IF ~isServer /\ cacheTime = 0
            THEN UNCHANGED <<cache, view>>
            ELSE /\ cache' = SetCache(cache, key, Len(promises) + 1)
                 /\ view' = SetCacheView(view, cache, key)
         /\ last' = Observe(call, key, cacheTime, TRUE, Len(promises) + 1, Len(promises) + 1)

\* slip: the promise is stored from its own then-callback, not by the call
RequestRegistersLate(call, key, cacheTime, src, responseType) ==
    IF ShouldUseCache(cache, key, cacheTime)
    THEN /\ last' = Observe(call, key, cacheTime, TRUE, MapGet(cache, key).promise, 0)
         /\ UNCHANGED <<cache, promises, view>>
    ELSE /\ Len(promises) < MaxPromises
         /\ promises' = Append(promises, NewPromise(key, src, responseType))
         /\ last' = Observe(call, key, cacheTime, TRUE, Len(promises) + 1, Len(promises) + 1)
         /\ UNCHANGED <<cache, view>>

\* slip: a hit refreshes the entry, which becomes the newest (promotion on read)
RequestRefreshesOnHit(call, key, cacheTime, src, responseType) ==
    IF ShouldUseCache(cache, key, cacheTime)
    THEN /\ last' = Observe(call, key, cacheTime, TRUE, MapGet(cache, key).promise, 0)
         /\ cache' = Append(MapDelete(cache, key),
                            [MapGet(cache, key) EXCEPT !.timestamp = now])
         /\ UNCHANGED <<promises, view>>
    ELSE /\ Len(promises) < MaxPromises
         /\ promises' = Append(promises, NewPromise(key, src, responseType))
         /\ cache' = SetCache(cache, key, Len(promises) + 1)
         /\ view' = SetCacheView(view, cache, key)
         /\ last' = Observe(call, key, cacheTime, TRUE, Len(promises) + 1, Len(promises) + 1)

\* the part get and memo share: serve the entry, or start an operation and
\* store its promise
Request(call, key, cacheTime, src, responseType) ==
    IF ShouldUseCache(cache, key, cacheTime)
    THEN /\ last' = Observe(call, key, cacheTime, TRUE, MapGet(cache, key).promise, 0)
         /\ UNCHANGED <<cache, promises, view>>
    ELSE /\ Len(promises) < MaxPromises
         /\ promises' = Append(promises, NewPromise(key, src, responseType))
         /\ cache' = SetCache(cache, key, Len(promises) + 1)
         /\ view' = SetCacheView(view, cache, key)
         /\ last' = Observe(call, key, cacheTime, TRUE, Len(promises) + 1, Len(promises) + 1)

\* slip: || for the default parameter, so that a supplied 0 counts as absent
EffectiveCacheTimeOr(ctArg) ==
    IF ctArg = <<>> \/ ctArg[1] = 0 THEN defaultCacheTime ELSE ctArg[1]

\* cacheTime = this._defaultCacheTime: the default stands in for an absent one
EffectiveCacheTime(ctArg) ==
    IF ctArg = <<>> THEN defaultCacheTime ELSE ctArg[1]

\* api.get(path) and api.get({pathName, opts, cacheTime})
Get(pathName, rtArg, ctArg) ==
    LET cacheTime    == EffectiveCacheTime(ctArg)
        responseType == IF rtArg = "" THEN "json" ELSE rtArg
    IN  /\ IF /\ Validate(responseType)
              /\ ShouldUseCache(cache, pathName, cacheTime) \/ pathName \notin BadPaths
           THEN Request("get", pathName, cacheTime, Fetch, responseType)
           ELSE /\ last' = Observe("get", pathName, 0, FALSE, 0, 0)
                /\ UNCHANGED <<cache, promises, view>>
        /\ UNCHANGED <<peer, isServer, defaultCacheTime, maxCacheSize, now>>

\* slip: memo stores with this[cache].set and skips setCache's purges
MemoSkipsPurge(key, fn, ctArg) ==
    LET cacheTime == EffectiveCacheTime(ctArg)
    IN  /\ IF ShouldUseCache(cache, key, cacheTime)
           THEN /\ last' = Observe("memo", key, cacheTime, TRUE, MapGet(cache, key).promise, 0)
                /\ UNCHANGED <<cache, promises>>
           ELSE /\ Len(promises) < MaxPromises
                /\ promises' = Append(promises, NewPromise(key, fn, ""))
                /\ cache' = MapSet(cache, key, Len(promises) + 1, now)
                /\ last' = Observe("memo", key, cacheTime, TRUE,
                                   Len(promises) + 1, Len(promises) + 1)
        /\ UNCHANGED <<peer, isServer, defaultCacheTime, maxCacheSize, now, view>>

\* slip: memo keeps its entries under names of its own
MemoOwnNamespace(key, fn, ctArg) ==
    LET cacheTime == EffectiveCacheTime(ctArg)
        name      == IF key = "/a" THEN "memo:/a"
                     ELSE IF key = "/b" THEN "memo:/b" ELSE "memo:/c"
    IN  /\ IF ShouldUseCache(cache, name, cacheTime)
           THEN /\ last' = Observe("memo", key, cacheTime, TRUE, MapGet(cache, name).promise, 0)
                /\ UNCHANGED <<cache, promises, view>>
           ELSE /\ Len(promises) < MaxPromises
                /\ promises' = Append(promises, NewPromise(key, fn, ""))
                /\ cache' = SetCache(cache, name, Len(promises) + 1)
                /\ view' = SetCacheView(view, cache, name)
                /\ last' = Observe("memo", key, cacheTime, TRUE,
                                   Len(promises) + 1, Len(promises) + 1)
        /\ UNCHANGED <<peer, isServer, defaultCacheTime, maxCacheSize, now>>

\* slip: fn() is called before the store is consulted
MemoCallsProducerFirst(key, fn, ctArg) ==
    LET cacheTime == EffectiveCacheTime(ctArg)
    IN  /\ Len(promises) < MaxPromises
        /\ promises' = Append(promises, NewPromise(key, fn, ""))
        /\ IF ShouldUseCache(cache, key, cacheTime)
           THEN /\ last' = Observe("memo", key, cacheTime, TRUE, MapGet(cache, key).promise, 0)
                /\ UNCHANGED <<cache, view>>
           ELSE /\ cache' = SetCache(cache, key, Len(promises) + 1)
                /\ view' = SetCacheView(view, cache, key)
                /\ last' = Observe("memo", key, cacheTime, TRUE,
                                   Len(promises) + 1, Len(promises) + 1)
        /\ UNCHANGED <<peer, isServer, defaultCacheTime, maxCacheSize, now>>

\* slip: the stale entry is purged before the producer is called
MemoPurgesFirst(key, fn, ctArg) ==
    LET cacheTime == EffectiveCacheTime(ctArg)
    IN  /\ IF ShouldUseCache(cache, key, cacheTime) \/ fn \notin ThrowingProducers
           THEN Request("memo", key, cacheTime, fn, "")
           ELSE /\ last' = Observe("memo", key, 0, FALSE, 0, 0)
                /\ cache' = InvalidateStore(cache, key)
                /\ view' = InvalidateView(view, key)
                /\ UNCHANGED promises
        /\ UNCHANGED <<peer, isServer, defaultCacheTime, maxCacheSize, now>>

\* api.memo(key, fn, cacheTime): on a miss fn() is called, and when it
\* throws the call ends there
Memo(key, fn, ctArg) ==
    LET cacheTime == EffectiveCacheTime(ctArg)
    IN  /\ IF ShouldUseCache(cache, key, cacheTime) \/ fn \notin ThrowingProducers
           THEN Request("memo", key, cacheTime, fn, "")
           ELSE /\ last' = Observe("memo", key, 0, FALSE, 0, 0)
                /\ UNCHANGED <<cache, promises, view>>
        /\ UNCHANGED <<peer, isServer, defaultCacheTime, maxCacheSize, now>>

\* slip: the verbs go through the store as get does
MutateThroughCache(method, pathName, rtArg) ==
    LET responseType == IF rtArg = "" THEN "json" ELSE rtArg
    IN  /\ IF Validate(responseType)
           THEN Request(method, pathName, defaultCacheTime, Fetch, responseType)
           ELSE /\ last' = Observe(method, pathName, 0, FALSE, 0, 0)
                /\ UNCHANGED <<cache, promises, view>>
        /\ UNCHANGED <<peer, isServer, defaultCacheTime, maxCacheSize, now>>

\* api.post(pathName, opts) and the other mutating verbs: this[handler]
Mutate(method, pathName, rtArg) ==
    LET responseType == IF rtArg = "" THEN "json" ELSE rtArg
    IN  /\ IF Validate(responseType)
           THEN /\ Len(promises) < MaxPromises
                /\ promises' = Append(promises, NewPromise(pathName, Fetch, responseType))
                /\ last' = Observe(method, pathName, 0, TRUE,
                                   Len(promises) + 1, Len(promises) + 1)
           ELSE /\ last' = Observe(method, pathName, 0, FALSE, 0, 0)
                /\ UNCHANGED promises
        /\ UNCHANGED <<peer, isServer, defaultCacheTime, maxCacheSize, cache, now, view>>

\* slip: removing an entry aborts its operation while it is pending
InvalidateCancels(key) ==
    /\ cache' = InvalidateStore(cache, key)
    /\ view' = InvalidateView(view, key)
    /\ promises' = [p \in 1..Len(promises) |->
                      IF /\ promises[p].state = "pending"
                         /\ \E n \in 1..Len(cache) : cache[n].promise = p
                         /\ \A n \in 1..Len(cache') : cache'[n].promise # p
                      THEN [promises[p] EXCEPT !.state = "rejected",
                                               !.result = Throw("AbortError"),
                                               !.value = "AbortError"]
                      ELSE promises[p]]
    /\ last' = Observe("invalidate", key, 0, TRUE, 0, 0)
    /\ UNCHANGED <<peer, isServer, defaultCacheTime, maxCacheSize, now>>

\* api.invalidate(key)
Invalidate(key) ==
    /\ cache' = InvalidateStore(cache, key)
    /\ view' = InvalidateView(view, key)
    /\ last' = Observe("invalidate", key, 0, TRUE, 0, 0)
    /\ UNCHANGED <<peer, isServer, defaultCacheTime, maxCacheSize, promises, now>>

\* slip: the store is a binding of the module, one for all instances
PeerRequestShared(call, key, cacheTime, src, responseType) ==
    /\ IF ShouldUseCache(cache, key, cacheTime)
       THEN /\ last' = Observe(call, key, cacheTime, TRUE, MapGet(cache, key).promise, 0)
            /\ UNCHANGED <<cache, promises>>
       ELSE /\ Len(promises) < MaxPromises
            /\ promises' = Append(promises, NewPromise(key, src, responseType))
            /\ cache' = SetCache(cache, key, Len(promises) + 1)
            /\ last' = Observe(call, key, cacheTime, TRUE, Len(promises) + 1, Len(promises) + 1)
    /\ UNCHANGED <<peer, view>>

\* get and memo of the second instance: the same code on its own store
PeerRequest(call, key, cacheTime, src, responseType) ==
    /\ IF ShouldUseCache(peer, key, cacheTime)
       THEN /\ last' = [Observe(call, key, cacheTime, TRUE, MapGet(peer, key).promise, 0)
                           EXCEPT !.pre = peer]
            /\ UNCHANGED <<peer, promises>>
       ELSE /\ Len(promises) < MaxPromises
            /\ promises' = Append(promises, NewPromise(key, src, responseType))
            /\ peer' = SetCache(peer, key, Len(promises) + 1)
            /\ last' = [Observe(call, key, cacheTime, TRUE, Len(promises) + 1, Len(promises) + 1)
                           EXCEPT !.pre = peer]
    /\ UNCHANGED <<cache, view>>

\* other.get(pathName) and other.get({pathName, cacheTime})
PeerGet(pathName, ctArg) ==
    /\ PeerRequest("peer.get", pathName, EffectiveCacheTime(ctArg), Fetch, "json")
    /\ UNCHANGED <<isServer, defaultCacheTime, maxCacheSize, now>>

\* other.memo(key, fn, cacheTime)
PeerMemo(key, fn, ctArg) ==
    /\ PeerRequest("peer.memo", key, EffectiveCacheTime(ctArg), fn, "")
    /\ UNCHANGED <<isServer, defaultCacheTime, maxCacheSize, now>>

\* other.invalidate(key)
PeerInvalidate(key) ==
    /\ peer' = InvalidateStore(peer, key)
    /\ last' = [Observe("peer.invalidate", key, 0, TRUE, 0, 0) EXCEPT !.pre = peer]
    /\ UNCHANGED <<isServer, defaultCacheTime, maxCacheSize, cache, promises, now, view>>

\* api.getCacheStats(): the caller keeps the object it returns
CallGetCacheStats ==
    /\ view' = "store"
    /\ last' = Observe("getCacheStats", "", 0, TRUE, 0, 0)
    /\ UNCHANGED <<peer, isServer, defaultCacheTime, maxCacheSize, cache, promises, now>>

\* the caller calls values.clear() or values.delete(key) on the Map it holds
WriteValues(method, key) ==
    /\ view # "none"
    /\ cache' = IF view # "store" THEN cache
                ELSE IF method = "clear" THEN <<>>
                ELSE MapDelete(cache, key)
    /\ last' = Observe(method, key, 0, TRUE, 0, 0)
    /\ UNCHANGED <<peer, isServer, defaultCacheTime, maxCacheSize, promises, now, view>>

\* slip: the entry is stamped again when its operation completes
SettleStampsCompletion(p, result) ==
    /\ promises[p].state = "pending"
    /\ result \in ResultsOf(promises[p].src)
    /\ LET settled == Chain(promises[p].src, result, promises[p].rt)
       IN  promises' = [promises EXCEPT ![p].state = settled.state,
                                        ![p].result = result,
                                        ![p].value = settled.value]
    /\ cache' = [n \in 1..Len(cache) |->
                    IF cache[n].promise = p
                    THEN [cache[n] EXCEPT !.timestamp = now]
                    ELSE cache[n]]
    /\ last' = [NoCall EXCEPT !.call = "settle"]
    /\ UNCHANGED <<peer, isServer, defaultCacheTime, maxCacheSize, now, view>>

\* slip: an operation that fails takes its entry out of the store
SettleDropsRejected(p, result) ==
    /\ promises[p].state = "pending"
    /\ result \in ResultsOf(promises[p].src)
    /\ LET settled == Chain(promises[p].src, result, promises[p].rt)
       IN  /\ promises' = [promises EXCEPT ![p].state = settled.state,
                                           ![p].result = result,
                                           ![p].value = settled.value]
           /\ cache' = IF settled.state = "rejected"
                       THEN SelectSeq(cache, LAMBDA e : e.promise # p)
                       ELSE cache
    /\ last' = [NoCall EXCEPT !.call = "settle"]
    /\ UNCHANGED <<peer, isServer, defaultCacheTime, maxCacheSize, now, view>>

\* an underlying operation produces its result and the promise settles
Settle(p, result) ==
    /\ promises[p].state = "pending"
    /\ result \in ResultsOf(promises[p].src)
    /\ LET settled == Chain(promises[p].src, result, promises[p].rt)
       IN  promises' = [promises EXCEPT ![p].state = settled.state,
                                        ![p].result = result,
                                        ![p].value = settled.value]
    /\ last' = [NoCall EXCEPT !.call = "settle"]
    /\ UNCHANGED <<peer, isServer, defaultCacheTime, maxCacheSize, cache, now, view>>

\* slip: a timer sweeps the entries older than the default window
TickSweepsExpired ==
    /\ now + TickMs <= MaxTicks * TickMs
    /\ now' = now + TickMs
    /\ cache' = IF isServer THEN cache
                ELSE SelectSeq(cache, LAMBDA e :
                         now' - e.timestamp < defaultCacheTime * MsPerSec)
    /\ last' = [NoCall EXCEPT !.call = "tick"]
    /\ UNCHANGED <<peer, isServer, defaultCacheTime, maxCacheSize, promises, view>>

\* the clock advances
Tick ==
    /\ now + TickMs <= MaxTicks * TickMs
    /\ now' = now + TickMs
    /\ last' = [NoCall EXCEPT !.call = "tick"]
    /\ UNCHANGED <<peer, isServer, defaultCacheTime, maxCacheSize, cache, promises, view>>

\* the calls of a client of the class, and the clock
NextNoInvalidate ==
    \/ \E k \in TwoKeys, rt \in RespTypeArgs, ct \in CacheTimeArgs : Get(k, rt, ct)
    \/ \E k \in TwoKeys, fn \in Producers, ct \in CacheTimeArgs : Memo(k, fn, ct)
    \/ Tick

NextStore ==
    \/ \E k \in TwoKeys, rt \in RespTypeArgs, ct \in CacheTimeArgs : Get(k, rt, ct)
    \/ \E k \in TwoKeys, fn \in Producers, ct \in CacheTimeArgs : Memo(k, fn, ct)
    \/ \E k \in TwoKeys \cup {Wildcard} : Invalidate(k)
    \/ Tick

\* gets on three paths: enough entries to fill and overfill a store of two
NextEvict ==
    \/ \E k \in Keys, rt \in RespTypeArgs, ct \in CacheTimeArgs : Get(k, rt, ct)
    \/ \E k \in Keys \cup {Wildcard} : Invalidate(k)
    \/ Tick

Next ==
    \/ \E k \in TwoKeys, rt \in RespTypeArgs, ct \in CacheTimeArgs : Get(k, rt, ct)
    \/ \E k \in TwoKeys, fn \in Producers, ct \in CacheTimeArgs : Memo(k, fn, ct)
    \/ \E k \in TwoKeys \cup {Wildcard} : Invalidate(k)
    \/ \E p \in 1..Len(promises) :
           \E r \in TypicalResultsOf(promises[p].src) : Settle(p, r)
    \/ Tick

OutcomeKeys == {"/a"}

\* get and the mutating verbs on the same paths
NextVerbs ==
    \/ \E k \in TwoKeys, rt \in RespTypeArgs, ct \in CacheTimeArgs : Get(k, rt, ct)
    \/ \E m \in Verbs, k \in TwoKeys, rt \in RespTypeArgs : Mutate(m, k, rt)
    \/ \E k \in TwoKeys \cup {Wildcard} : Invalidate(k)
    \/ Tick

\* get and the mutating verbs on one path with every kind of responseType
NextConfig ==
    \/ \E k \in OutcomeKeys, rt \in AllRespTypeArgs, ct \in CacheTimeArgs : Get(k, rt, ct)
    \/ \E m \in Verbs, k \in OutcomeKeys, rt \in AllRespTypeArgs : Mutate(m, k, rt)
    \/ \E k \in OutcomeKeys \cup {Wildcard} : Invalidate(k)
    \/ Tick

\* get and memo on one key, with and without a cacheTime
NextWindow ==
    \/ \E k \in OutcomeKeys, rt \in RespTypeArgs, ct \in CacheTimeArgs : Get(k, rt, ct)
    \/ \E k \in OutcomeKeys, fn \in Producers, ct \in CacheTimeArgs : Memo(k, fn, ct)
    \/ \E k \in OutcomeKeys \cup {Wildcard} : Invalidate(k)
    \/ Tick

\* get and memo, and a caller that keeps and writes to what getCacheStats
\* returned
NextStats ==
    \/ \E k \in TwoKeys, rt \in RespTypeArgs, ct \in CacheTimeArgs : Get(k, rt, ct)
    \/ \E k \in TwoKeys, fn \in Producers, ct \in CacheTimeArgs : Memo(k, fn, ct)
    \/ \E k \in TwoKeys \cup {Wildcard} : Invalidate(k)
    \/ CallGetCacheStats
    \/ \E k \in TwoKeys : WriteValues("delete", k)
    \/ WriteValues("clear", Wildcard)
    \/ Tick

\* get, memo and the mutating verbs on one path, with every result the
\* operations can produce
NextOutcome ==
    \/ \E k \in OutcomeKeys, rt \in RespTypeArgs, ct \in CacheTimeArgs : Get(k, rt, ct)
    \/ \E k \in OutcomeKeys, fn \in Producers, ct \in CacheTimeArgs : Memo(k, fn, ct)
    \/ \E m \in Verbs, k \in OutcomeKeys, rt \in RespTypeArgs : Mutate(m, k, rt)
    \/ \E k \in OutcomeKeys \cup {Wildcard} : Invalidate(k)
    \/ \E p \in 1..Len(promises) :
           \E r \in ResultsOf(promises[p].src) : Settle(p, r)
    \/ Tick

\* one instance with a store of one entry: the settlement of the underlying
\* operations interleaves with the calls
InitFlight ==
    /\ Init
    /\ maxCacheSize = 1
    /\ defaultCacheTime = MaxCacheTime

\* the store under every configuration; no operation settles
SpecStore == Init /\ [][NextStore]_vars

\* the size of the store under every configuration
SpecEvict == Init /\ [][NextEvict]_vars

\* a client that never calls invalidate
SpecNoInvalidate == Init /\ [][NextNoInvalidate]_vars

\* calls interleaved with the settlement of the operations
SpecFlight == InitFlight /\ [][Next]_vars

\* calls of getCacheStats among the others, in server context
InitStats ==
    /\ Init
    /\ isServer
    /\ maxCacheSize = MaxSizeLimit
    /\ defaultCacheTime = 0

SpecStats == InitStats /\ [][NextStats]_vars

\* every default window, both contexts, a store of one entry
InitWindow ==
    /\ Init
    /\ maxCacheSize = 1

SpecWindow == InitWindow /\ [][NextWindow]_vars

\* calls with every kind of responseType
SpecConfig == InitFlight /\ [][NextConfig]_vars

\* calls, mutating verbs among them, and every outcome of the operations
SpecOutcome == InitFlight /\ [][NextOutcome]_vars

\* a store of two: gets with their settlements, invalidation and time
NextOrder ==
    \/ \E k \in Keys, ct \in CacheTimeArgs : Get(k, "", ct)
    \/ \E k \in Keys \cup {Wildcard} : Invalidate(k)
    \/ \E p \in 1..Len(promises) :
           \E r \in TypicalResultsOf(promises[p].src) : Settle(p, r)
    \/ Tick

InitOrder ==
    /\ Init
    /\ maxCacheSize = MaxSizeLimit
    /\ defaultCacheTime = MaxCacheTime

SpecOrder == InitOrder /\ [][NextOrder]_vars

\* a store of two in both contexts: gets on three paths, invalidation and
\* time; no operation settles
SpecStoreOfTwo == InitOrder /\ [][NextEvict]_vars

\* get and the mutating verbs on a store of two; no operation settles
SpecVerbs == InitOrder /\ [][NextVerbs]_vars

\* every kind of call on one path; no operation settles
NextCalls ==
    \/ \E k \in OutcomeKeys, rt \in RespTypeArgs, ct \in CacheTimeArgs : Get(k, rt, ct)
    \/ \E k \in OutcomeKeys, fn \in Producers, ct \in CacheTimeArgs : Memo(k, fn, ct)
    \/ \E m \in Verbs, k \in OutcomeKeys, rt \in RespTypeArgs : Mutate(m, k, rt)
    \/ \E k \in OutcomeKeys \cup {Wildcard} : Invalidate(k)
    \/ Tick

SpecCalls == InitFlight /\ [][NextCalls]_vars

\* gets on two paths and a store of one: every miss on the other path
\* evicts, and the operations settle between the calls
NextSettle ==
    \/ \E k \in TwoKeys, ct \in CacheTimeArgs : Get(k, "", ct)
    \/ \E k \in TwoKeys \cup {Wildcard} : Invalidate(k)
    \/ \E p \in 1..Len(promises) :
           \E r \in TypicalResultsOf(promises[p].src) : Settle(p, r)
    \/ Tick

SpecSettle == InitFlight /\ [][NextSettle]_vars

\* the ways an operation ends: one success, and each kind of failure
FailureResultsOf(src) ==
    IF src = Fetch
    THEN {Response(200, "json"), Response(404, "text"), NetworkError}
    ELSE ProducerResults

\* get and memo on one path, the operations succeeding or failing between
\* the calls
NextRetry ==
    \/ \E k \in OutcomeKeys, ct \in CacheTimeArgs : Get(k, "", ct)
    \/ \E k \in OutcomeKeys, fn \in Producers, ct \in CacheTimeArgs : Memo(k, fn, ct)
    \/ \E k \in OutcomeKeys \cup {Wildcard} : Invalidate(k)
    \/ \E p \in 1..Len(promises) :
           \E r \in FailureResultsOf(promises[p].src) : Settle(p, r)
    \/ Tick

SpecRetry == InitFlight /\ [][NextRetry]_vars

\* get and the mutating verbs on one path, their fetches answered in every
\* way the transport can answer
NextAnswers ==
    \/ \E k \in OutcomeKeys, ct \in CacheTimeArgs : Get(k, "", ct)
    \/ \E m \in Verbs, k \in OutcomeKeys : Mutate(m, k, "")
    \/ \E p \in 1..Len(promises) :
           \E r \in ResultsOf(promises[p].src) : Settle(p, r)
    \/ Tick

SpecAnswers == InitFlight /\ [][NextAnswers]_vars

\* the strings a caller can pass as path or key, the reserved one included
ReservedKeys == {"/a", "/b", Wildcard}

\* a store of two, requested and invalidated under every string
NextReserved ==
    \/ \E k \in ReservedKeys, ct \in CacheTimeArgs : Get(k, "", ct)
    \/ \E k \in ReservedKeys, fn \in Producers, ct \in CacheTimeArgs : Memo(k, fn, ct)
    \/ \E k \in ReservedKeys : Invalidate(k)
    \/ Tick

SpecReserved == InitOrder /\ [][NextReserved]_vars

\* two instances made with the same options, used side by side
PeerKeys == {"/a"}

NextPeers ==
    \/ \E k \in PeerKeys, ct \in CacheTimeArgs : Get(k, "", ct)
    \/ \E k \in PeerKeys, fn \in Producers, ct \in CacheTimeArgs : Memo(k, fn, ct)
    \/ \E k \in PeerKeys \cup {Wildcard} : Invalidate(k)
    \/ \E k \in PeerKeys, ct \in CacheTimeArgs : PeerGet(k, ct)
    \/ \E k \in PeerKeys, fn \in Producers, ct \in CacheTimeArgs : PeerMemo(k, fn, ct)
    \/ \E k \in PeerKeys \cup {Wildcard} : PeerInvalidate(k)
    \/ Tick

SpecPeers == InitFlight /\ [][NextPeers]_vars

ThrowKeys == {"/a"} \cup BadPaths

\* calls whose operation cannot be made, next to calls that work
NextThrow ==
    \/ \E k \in ThrowKeys, ct \in CacheTimeArgs : Get(k, "", ct)
    \/ \E k \in ThrowKeys, fn \in Producers \cup ThrowingProducers, ct \in CacheTimeArgs :
           Memo(k, fn, ct)
    \/ \E k \in ThrowKeys \cup {Wildcard} : Invalidate(k)
    \/ Tick

SpecThrow == InitFlight /\ [][NextThrow]_vars

----------------------------------------------------------------------------
(* What the claims speak of *)

\* the last call was a get or memo that returned a promise
IsRequest == last.call \in {"get", "memo"} /\ last.ok

IsHit == IsRequest /\ last.started = 0

IsMiss == IsRequest /\ last.started # 0

\* the age of key's entry in the store before the last call
AgeBefore(key) == now - MapGet(last.pre, key).timestamp

\* an entry of that age is inside a window of ct seconds
InsideWindow(age, ct) == age < ct * MsPerSec

\* the entry a miss appends: the promise it started, stamped with the time of the call
NewEntry == [key |-> last.key, promise |-> last.started, timestamp |-> now]

DropFirst(c) == SubSeq(c, 2, Len(c))

Without(c, key) == SelectSeq(c, LAMBDA e : e.key # key)

----------------------------------------------------------------------------
(* C1 as stated: a get or memo for a key, issued while an operation started
   earlier for the same key has not settled, starts no operation. *)
C1_SingleFlightUnconditional ==
    IsMiss =>
        \A i \in 1..Len(promises) :
            (i # last.started /\ promises[i].key = last.key)
                => promises[i].state # "pending"

(* C1 amended: single-flight holds while the key's entry is stored and valid.
   A get or memo for a key whose stored entry is valid (server context, or
   client context inside the window) and whose operation is still pending
   starts no operation and returns the stored promise, which is the latest
   operation started for the key; so all such callers hold the one operation
   and observe its one outcome. *)
C1_SingleFlight ==
    (/\ IsRequest
     /\ MapHas(last.pre, last.key)
     /\ isServer \/ InsideWindow(AgeBefore(last.key), last.ct)
     /\ promises[MapGet(last.pre, last.key).promise].state = "pending")
    => /\ last.started = 0
       /\ last.ret = MapGet(last.pre, last.key).promise
       /\ cache = last.pre
       /\ \A i \in 1..Len(promises) :
              promises[i].key = last.key => i <= last.ret

C1_Witness ==
    /\ IsHit
    /\ ~isServer
    /\ promises[last.ret].state = "pending"
    /\ Len(promises) >= 2

----------------------------------------------------------------------------
(* C2: in server context a get or memo for a key that has an entry returns
   the stored promise and starts no operation, whatever the entry's age and
   whatever the cacheTime in effect. *)
C2_ServerValidity ==
    (isServer /\ IsRequest /\ MapHas(last.pre, last.key))
    => /\ last.started = 0
       /\ last.ret = MapGet(last.pre, last.key).promise
       /\ cache = last.pre

\* a server hit with cacheTime 0 on an entry at least one second old
C2_Witness ==
    /\ isServer
    /\ IsHit
    /\ last.ct = 0
    /\ AgeBefore(last.key) >= MsPerSec

----------------------------------------------------------------------------
\* the keys of the operations started so far are pairwise different
OnePromisePerKey ==
    \A i, j \in 1..Len(promises) : promises[i].key = promises[j].key => i = j

(* C3 as stated: in server context, with invalidate never called, at most one
   operation is ever started per key. *)
C3_ServerPermanenceUnconditional == isServer => OnePromisePerKey

(* C3 amended: in server context, with invalidate never called, as long as no
   more than maxCacheSize keys have been requested (or maxCacheSize is -1),
   at most one operation is started per key, every request returns the
   operation the first request for its key created, and the store holds the
   entries in the order they were created. *)
C3_ServerPermanence ==
    (isServer /\ (maxCacheSize = Unbounded \/ Len(promises) <= maxCacheSize))
    => /\ OnePromisePerKey
       /\ Len(cache) = Len(promises)
       /\ \A i \in 1..Len(cache) :
              cache[i].promise = i /\ cache[i].key = promises[i].key
       /\ IsRequest => promises[last.ret].key = last.key

\* a later request is served the first operation, over a second old, cacheTime 0
C3_Witness ==
    /\ isServer
    /\ IsHit
    /\ last.ct = 0
    /\ Len(promises) = maxCacheSize
    /\ last.ret = 1
    /\ AgeBefore(last.key) >= MsPerSec

----------------------------------------------------------------------------
(* C4: in client context a get or memo is served from the store exactly when
   the key has an entry and now - timestamp < cacheTime (in milliseconds);
   otherwise it starts an operation whose entry, stamped now, is the key's
   only entry. *)
C4_ClientExpiry ==
    (~isServer /\ IsRequest)
    => LET fresh == /\ MapHas(last.pre, last.key)
                    /\ InsideWindow(AgeBefore(last.key), last.ct)
       IN  /\ fresh <=> last.started = 0
           /\ fresh => /\ last.ret = MapGet(last.pre, last.key).promise
                       /\ cache = last.pre
           /\ ~fresh => /\ last.started = Len(promises)
                        /\ last.ret = last.started
                        /\ promises[last.started].key = last.key
                        /\ promises[last.started].state = "pending"
                        /\ MapHas(cache, last.key)
                        /\ MapGet(cache, last.key) = NewEntry
                        /\ Len(Without(cache, last.key)) = Len(cache) - 1

\* a client miss that replaced an entry exactly one window old
C4_Witness ==
    /\ ~isServer
    /\ IsMiss
    /\ last.ct = 1
    /\ MapHas(last.pre, last.key)
    /\ AgeBefore(last.key) = MsPerSec

----------------------------------------------------------------------------
(* C5: in client context with a cacheTime of 0 in effect no entry is valid:
   every get or memo starts a new operation and returns it. *)
C5_NoClientCachingByDefault ==
    (~isServer /\ IsRequest /\ last.ct = 0)
    => /\ last.started = Len(promises)
       /\ last.ret = last.started
       /\ MapGet(cache, last.key).promise = last.started

\* default window, an entry created at this very millisecond, still a miss
C5_Witness ==
    /\ ~isServer
    /\ defaultCacheTime = 0
    /\ IsMiss
    /\ last.ct = 0
    /\ MapHas(last.pre, last.key)
    /\ AgeBefore(last.key) = 0

----------------------------------------------------------------------------
(* C6: for every maxCacheSize other than -1 the store never holds more than
   maxCacheSize entries. *)
C6_SizeBound ==
    maxCacheSize # Unbounded => GetCacheStats.cacheSize <= maxCacheSize

----------------------------------------------------------------------------
(* C7: a miss on a key not in the store, with the store holding exactly
   maxCacheSize entries, removes the first entry in insertion order, only
   that one, and appends the new entry. *)
C7_FifoEviction ==
    (/\ IsMiss
     /\ ~MapHas(last.pre, last.key)
     /\ maxCacheSize # Unbounded
     /\ Len(last.pre) = maxCacheSize)
    => cache = Append(DropFirst(last.pre), NewEntry)

\* three keys requested with room for two: the first is gone, the others stay
C7_Witness ==
    /\ IsMiss
    /\ maxCacheSize = MaxSizeLimit
    /\ Len(last.pre) = maxCacheSize
    /\ ~MapHas(last.pre, last.key)
    /\ Len(cache) = maxCacheSize
    /\ cache[1] = last.pre[2]

----------------------------------------------------------------------------
(* C8: invalidate(k), k not "*", on a key that has an entry leaves no entry
   for k; a key without an entry gets one only by a request for it, and that
   request starts a new operation, in both contexts and whatever the removed
   entry's age. *)
C8_InvalidatePresent ==
    [][/\ (last'.call = "invalidate" /\ last'.key # Wildcard)
            => ~MapHas(cache', last'.key)
       /\ \A k \in Keys :
            ~MapHas(cache, k)
            => IF last'.call \in {"get", "memo"} /\ last'.ok /\ last'.key = k
               THEN /\ last'.started = Len(promises) + 1
                    /\ last'.ret = last'.started
                    /\ Len(promises') = Len(promises) + 1
               ELSE ~MapHas(cache', k)]_vars

\* a client entry still inside the default window has just been invalidated
C8_Witness ==
    /\ last.call = "invalidate"
    /\ last.key # Wildcard
    /\ MapHas(last.pre, last.key)
    /\ ~MapHas(cache, last.key)
    /\ ~isServer
    /\ InsideWindow(AgeBefore(last.key), defaultCacheTime)

----------------------------------------------------------------------------
(* C9: invalidate(k), k not "*", returns normally; for a key without an entry
   it leaves the store as it was, for a key with an entry it leaves every
   other entry as it was, in the same order. *)
C9_InvalidateFrame ==
    (last.call = "invalidate" /\ last.key # Wildcard)
    => /\ last.ok
       /\ ~MapHas(last.pre, last.key) => cache = last.pre
       /\ MapHas(last.pre, last.key) => cache = Without(last.pre, last.key)

\* an absent key invalidated on a store of two entries
C9_Witness ==
    /\ last.call = "invalidate"
    /\ last.key \in Keys
    /\ ~MapHas(last.pre, last.key)
    /\ Len(last.pre) = 2
    /\ cache = last.pre

----------------------------------------------------------------------------
(* C10: after invalidate("*") the store is empty and cacheSize is 0, whatever
   it held; the request that follows, for any key, starts a new operation,
   and so does every request for a key the store has no entry for. *)
C10_InvalidateWildcard ==
    [][/\ (last'.call = "invalidate" /\ last'.key = Wildcard)
            => /\ cache' = <<>>
               /\ GetCacheStats'.cacheSize = 0
       /\ (last'.call \in {"get", "memo"} /\ last'.ok /\ ~MapHas(last'.pre, last'.key))
            => /\ last'.started = Len(promises')
               /\ MapGet(cache', last'.key).promise = last'.started
       /\ (/\ last.call = "invalidate" /\ last.key = Wildcard
           /\ last'.call \in {"get", "memo"} /\ last'.ok)
            => /\ last'.started = Len(promises) + 1
               /\ last'.ret = last'.started
               /\ Len(promises') = Len(promises) + 1]_vars

\* the wildcard emptied a store of two entries
C10_Witness ==
    /\ last.call = "invalidate"
    /\ last.key = Wildcard
    /\ Len(last.pre) = 2
    /\ GetCacheStats.cacheSize = 0

----------------------------------------------------------------------------
\* the operation behind a settled promise failed: it threw, or the transport
\* answered without success
OperationFailed(q) ==
    \/ q.result.type = "throw"
    \/ q.result.type = "response" /\ ~Ok(q.result)

(* C11: when the operation behind a promise fails, the promise every caller
   holds (the one that created the entry, the ones served from the store
   before and after the failure) is rejected, with the error the operation
   threw or with an error carrying the transport's answer; it is never
   resolved, and once settled it never changes. *)
C11_FailurePropagation ==
    [][\A p \in 1..Len(promises') :
          LET q == promises'[p]
          IN  /\ (q.state # "pending" /\ OperationFailed(q))
                    => /\ q.state = "rejected"
                       /\ q.result.type = "throw" => q.value = q.result.error
                       /\ q.result.type = "response" => q.value.response = q.result
              /\ (p <= Len(promises) /\ promises[p].state # "pending")
                    => q = promises[p]
              /\ (last'.call \in {"get", "memo"} /\ last'.ok /\ last'.ret = p
                    /\ q.state # "pending" /\ OperationFailed(q))
                    => q.state = "rejected"]_vars

\* a request served from the store the promise of a fetch that had failed
C11_Witness ==
    /\ IsHit
    /\ promises[last.ret].src = Fetch
    /\ promises[last.ret].state = "rejected"
    /\ promises[last.ret].result = NetworkError
    /\ promises[last.ret].value = NetworkError.error

----------------------------------------------------------------------------
(* C12: the settlement of an operation leaves the store as it is; a get or
   memo for a key whose entry holds a rejected promise and is valid (server
   context, or client context inside the window) starts no operation and
   returns the stored promise, so it rejects with the same failure. *)
C12_NoRetryOnFailure ==
    [][/\ (\E p \in 1..Len(promises) :
              promises[p].state = "pending" /\ promises'[p].state # "pending")
            => cache' = cache
       /\ (/\ last'.call \in {"get", "memo"} /\ last'.ok
           /\ MapHas(cache, last'.key)
           /\ promises[MapGet(cache, last'.key).promise].state = "rejected"
           /\ \/ isServer
              \/ now - MapGet(cache, last'.key).timestamp < last'.ct * MsPerSec)
            => /\ promises' = promises
               /\ last'.started = 0
               /\ last'.ret = MapGet(cache, last'.key).promise
               /\ promises'[last'.ret].state = "rejected"
               /\ cache' = cache]_vars

\* a client request inside the window was served the rejected promise
C12_Witness ==
    /\ ~isServer
    /\ IsHit
    /\ last.ct = 1
    /\ promises[last.ret].state = "rejected"
    /\ OperationFailed(promises[last.ret])
    /\ cache = last.pre
    /\ Len(promises) = 1

----------------------------------------------------------------------------
\* the promises the store holds
Stored(c) == {c[n].promise : n \in 1..Len(c)}

(* C13: every call of post, put, patch, delete, head or options that passes
   validation starts an operation of its own and returns it: one more
   operation than before, pending, for the path of the call, held by no
   entry of the store; the store is left exactly as it was, the entry a get
   cached for the same path included. *)
C13_MutatingVerbsBypass ==
    [][(last'.call \in Verbs /\ last'.ok)
        => /\ Len(promises') = Len(promises) + 1
           /\ SubSeq(promises', 1, Len(promises)) = promises
           /\ last'.started = Len(promises')
           /\ last'.ret = last'.started
           /\ promises'[last'.ret].key = last'.key
           /\ promises'[last'.ret].state = "pending"
           /\ last'.ret \notin Stored(cache')
           /\ cache' = cache]_vars

\* a delete on a path get has cached, the second of two entries
C13_Witness ==
    /\ last.call = "delete"
    /\ last.ok
    /\ Len(last.pre) = 2
    /\ last.pre[2].key = last.key
    /\ cache = last.pre
    /\ last.ret # last.pre[2].promise
    /\ promises[last.pre[2].promise].state = "pending"

----------------------------------------------------------------------------
\* the rule of the store: the entry of the key that was there before the call
\* is valid in the window of the call
ValidBefore ==
    /\ MapHas(last.pre, last.key)
    /\ isServer \/ InsideWindow(AgeBefore(last.key), last.ct)

\* the store after a miss: the key's old entry gone, then the oldest entry
\* gone if that leaves maxCacheSize entries, then the new entry last
AfterMiss ==
    LET rest == Without(last.pre, last.key)
        room == IF maxCacheSize # Unbounded /\ Len(rest) = maxCacheSize
                THEN DropFirst(rest)
                ELSE rest
    IN  Append(room, NewEntry)

(* C14: memo and get follow one rule.  From the same store, key, context,
   time and window either of them is served the stored promise exactly when
   the key's entry is valid, leaving the store as it was, and otherwise
   leaves the store with the stale entry of the key removed, the oldest entry
   evicted at capacity, and the new entry appended with the current time. *)
C14_MemoFollowsGet ==
    \A call \in {"get", "memo"} :
        (IsRequest /\ last.call = call)
        => /\ last.started = 0 <=> ValidBefore
           /\ ValidBefore => /\ cache = last.pre
                              /\ last.ret = MapGet(last.pre, last.key).promise
           /\ ~ValidBefore => /\ cache = AfterMiss
                               /\ last.ret = last.started

\* a memo on a full store evicted the entry a get had created
C14_Witness ==
    /\ last.call = "memo"
    /\ IsMiss
    /\ ~isServer
    /\ maxCacheSize > 0
    /\ Len(last.pre) = maxCacheSize
    /\ ~MapHas(last.pre, last.key)
    /\ promises[last.pre[1].promise].src = Fetch
    /\ cache = Append(DropFirst(last.pre), NewEntry)

----------------------------------------------------------------------------
(* C15: a memo for a key whose entry is valid (server context, or client
   context inside the window) returns the stored promise and calls no
   producer: no operation is started.  A memo that misses calls the producer
   once: exactly one operation is started, the producer's, and is returned. *)
C15_ProducerOnlyOnMiss ==
    [][last'.call = "memo"
        => IF /\ MapHas(cache, last'.key)
              /\ \/ isServer
                 \/ now - MapGet(cache, last'.key).timestamp < last'.ct * MsPerSec
           THEN /\ promises' = promises
                /\ last'.ret = MapGet(cache, last'.key).promise
           ELSE /\ Len(promises') = Len(promises) + 1
                /\ SubSeq(promises', 1, Len(promises)) = promises
                /\ promises'[Len(promises')].src \in Producers
                /\ promises'[Len(promises')].state = "pending"
                /\ last'.ret = Len(promises')]_vars

\* a client memo inside the window was served what another memo's producer made
C15_Witness ==
    /\ last.call = "memo"
    /\ IsHit
    /\ ~isServer
    /\ promises[last.ret].src \in Producers
    /\ Len(promises) = 1

----------------------------------------------------------------------------
(* C16: a get or mutating-verb call whose responseType is not one of the
   recognized values starts no operation (every operation fetch was started
   for has a recognized responseType), and a call that is rejected leaves the
   store as it was and starts nothing. *)
C16_InvalidConfiguration ==
    /\ \A p \in 1..Len(promises) :
          promises[p].src = Fetch => promises[p].rt \in ResponseTypes
    /\ (last.call \in Verbs \cup {"get"} /\ ~last.ok)
          => /\ cache = last.pre
             /\ last.started = 0
             /\ last.ret = 0

----------------------------------------------------------------------------
(* C17: whatever a caller does to the value getCacheStats returned (deleting
   or clearing entries of `values`), the store get and memo consult stays as
   it was. *)
C17_ReadOnlyIntrospection ==
    last.call \in {"clear", "delete"} => cache = last.pre

----------------------------------------------------------------------------
(* C18: removing an entry (invalidate(k), invalidate("*"), eviction, or the
   replacement of a stale entry) leaves its promise as it was, pending if it
   was pending; when a promise settles, in the store or out of it, it takes
   the outcome of its own operation and no other promise changes, a later
   promise for the same key included. *)
C18_RemovalDoesNotCancel ==
    [][\A p \in 1..Len(promises) :
          /\ (p \in Stored(cache) /\ p \notin Stored(cache'))
                => promises'[p] = promises[p]
          /\ (promises[p].state = "pending" /\ promises'[p].state # "pending")
                => /\ promises'[p].result \in ResultsOf(promises[p].src)
                   /\ promises'[p].state =
                        Chain(promises[p].src, promises'[p].result, promises[p].rt).state
                   /\ promises'[p].value =
                        Chain(promises[p].src, promises'[p].result, promises[p].rt).value
                   /\ \A q \in 1..Len(promises) : q # p => promises'[q] = promises[q]]_vars

\* on the server the first operation for a key has just failed, after its
\* entry was removed and while the operation that replaced it is pending
C18_Witness ==
    /\ isServer
    /\ Len(promises) = 2
    /\ promises[1].key = promises[2].key
    /\ 1 \notin Stored(cache)
    /\ 2 \in Stored(cache)
    /\ promises[1].state = "rejected"
    /\ promises[2].state = "pending"
    /\ last.call = "settle"

----------------------------------------------------------------------------
\* the window a call with this cacheTime argument has to use
WindowOf(ctArg) == IF ctArg = <<>> THEN defaultCacheTime ELSE ctArg[1]

(* C19: a get or memo uses the cacheTime supplied with the call when one is
   supplied, 0 included, and the instance's defaultCacheTime otherwise: in
   client context the call is served from the store exactly when the key's
   entry is younger than that window. *)
C19_PerCallWindow ==
    [][\A k \in OutcomeKeys, ctArg \in CacheTimeArgs :
          (Memo(k, "fn", ctArg) \/ Get(k, "", ctArg))
          => /\ last'.ct = WindowOf(ctArg)
             /\ ~isServer
                  => (last'.started = 0
                        <=> /\ MapHas(cache, k)
                            /\ now - MapGet(cache, k).timestamp
                                  < WindowOf(ctArg) * MsPerSec)]_vars

\* default window of a second, cacheTime 0 supplied: a fresh entry is not served
C19_Witness ==
    /\ ~isServer
    /\ defaultCacheTime = 1
    /\ IsMiss
    /\ last.ct = 0
    /\ MapHas(last.pre, last.key)
    /\ AgeBefore(last.key) = 0

----------------------------------------------------------------------------
\* the value is a NextPromiseCacheError
IsNextPromiseCacheError(e) == DOMAIN e = {"name", "message", "status", "response"}

\* the settled promises of get and of the mutating verbs
SettledFetches ==
    {p \in 1..Len(promises) : promises[p].src = Fetch /\ promises[p].state # "pending"}

(* C20 as stated: when the transport answers without success the request
   rejects with a NextPromiseCacheError carrying the status of the answer and
   the answer itself; when the transport fails the request rejects with the
   transport's error. *)
C20_ErrorOutcomeAsStated ==
    \A p \in SettledFetches :
        LET q == promises[p]
        IN  /\ (q.result.type = "response" /\ ~Ok(q.result))
                  => /\ q.state = "rejected"
                     /\ IsNextPromiseCacheError(q.value)
                     /\ q.value.status = q.result.status
                     /\ q.value.response = q.result
            /\ q.result.type = "throw"
                  => /\ q.state = "rejected"
                     /\ q.value = q.result.error

(* C20 amended: the error carries the status of the answer, or 500 when the
   answer's status is 0 (an opaque answer), and the answer itself; a failure
   of the transport is the rejection, unchanged. *)
C20_ErrorOutcome ==
    \A p \in SettledFetches :
        LET q == promises[p]
        IN  /\ (q.result.type = "response" /\ ~Ok(q.result))
                  => /\ q.state = "rejected"
                     /\ IsNextPromiseCacheError(q.value)
                     /\ q.result.status # 0 => q.value.status = q.result.status
                     /\ q.result.status = 0 => q.value.status = 500
                     /\ q.value.response = q.result
            /\ q.result.type = "throw"
                  => /\ q.state = "rejected"
                     /\ q.value = q.result.error

\* three fetches, one entry in the store: the first was answered 404, the
\* second met a network failure, the third was answered with status 0
C20_Witness ==
    /\ Len(promises) = 3
    /\ \A p \in 1..3 : promises[p].src = Fetch /\ promises[p].state = "rejected"
    /\ promises[1].result.type = "response"
    /\ promises[1].result.status = 404
    /\ promises[1].value.status = 404
    /\ promises[2].result.type = "throw"
    /\ promises[2].value = NetworkError.error
    /\ promises[3].result.type = "response"
    /\ promises[3].result.status = 0
    /\ promises[3].value.status = 500
    /\ promises[3].value.response.status = 0
    /\ Stored(cache) = {1}

----------------------------------------------------------------------------
(* C21: with maxCacheSize = -1 a miss removes no entry of another key and
   leaves the others in their order; a miss on a key that has no entry makes
   the store one entry longer, beyond any limit a size could set. *)
C21_UnboundedSentinel ==
    (maxCacheSize = Unbounded /\ IsMiss)
    => /\ Without(cache, last.key) = Without(last.pre, last.key)
       /\ cache[Len(cache)] = NewEntry
       /\ ~MapHas(last.pre, last.key)
            => /\ cache = Append(last.pre, NewEntry)
               /\ Len(cache) = Len(last.pre) + 1

\* a third key on a store of two: the store holds three, more than any
\* size limit of the model
C21_Witness ==
    /\ maxCacheSize = Unbounded
    /\ IsMiss
    /\ Len(last.pre) = MaxSizeLimit
    /\ ~MapHas(last.pre, last.key)
    /\ Len(cache) = MaxSizeLimit + 1
    /\ SubSeq(cache, 1, MaxSizeLimit) = last.pre

----------------------------------------------------------------------------
(* C22: get and memo use one store under the string they are given: a get
   for a string whose valid entry a memo created, and a memo for a string
   whose valid entry a get created, starts no operation and returns the
   stored promise. *)
C22_SharedStore ==
    [][(/\ last'.call \in {"get", "memo"} /\ last'.ok
        /\ MapHas(cache, last'.key)
        /\ \/ isServer
           \/ now - MapGet(cache, last'.key).timestamp < last'.ct * MsPerSec
        /\ LET src == promises[MapGet(cache, last'.key).promise].src
           IN  \/ last'.call = "get" /\ src \in Producers
               \/ last'.call = "memo" /\ src = Fetch)
        => /\ promises' = promises
           /\ last'.started = 0
           /\ last'.ret = MapGet(cache, last'.key).promise
           /\ cache' = cache]_vars

\* a client memo inside the window was served the promise of a get's fetch
C22_Witness ==
    /\ ~isServer
    /\ last.call = "memo"
    /\ IsHit
    /\ promises[last.ret].src = Fetch
    /\ promises[last.ret].key = last.key
    /\ Len(promises) = 1

----------------------------------------------------------------------------
(* C23: a get or memo served from the store leaves the store as it was: the
   entry keeps its timestamp, its promise and its place in the order. *)
C23_HitChangesNothing ==
    IsHit
    => /\ cache = last.pre
       /\ MapGet(cache, last.key).timestamp = MapGet(last.pre, last.key).timestamp
       /\ MapGet(cache, last.key).promise = last.ret
       /\ IndexOf(cache, last.key) = IndexOf(last.pre, last.key)

\* the older of two entries was read a second after it was made: it is
\* still the first, with the time of its creation
C23_Witness ==
    /\ IsHit
    /\ Len(cache) = 2
    /\ cache[1].key = last.key
    /\ cache[1].timestamp = 0
    /\ now = MsPerSec
    /\ maxCacheSize = 2

----------------------------------------------------------------------------
(* C24: the step of a get or memo that starts an operation also stores it:
   in the state the call returns in, the operation is pending, it is the
   promise returned, and the store holds it under the key as the newest
   entry, stamped with the time of the call. So no operation of get or memo
   is ever pending without having been stored. *)
C24_SynchronousRegistration ==
    [][(last'.call \in {"get", "memo"} /\ Len(promises') > Len(promises))
       => LET p == Len(promises')
          IN  /\ p = Len(promises) + 1
              /\ promises'[p].state = "pending"
              /\ last'.ret = p
              /\ Len(cache') > 0
              /\ cache'[Len(cache')] =
                     [key |-> promises'[p].key, promise |-> p, timestamp |-> now]]_vars

\* a memo miss after a mutating verb: the verb's fetch is pending and was
\* never stored, the producer's operation is pending and stored
C24_Witness ==
    /\ last.call = "memo"
    /\ IsMiss
    /\ last.started = 2
    /\ promises[1].state = "pending"
    /\ promises[2].state = "pending"
    /\ promises[2].src \in Producers
    /\ Stored(cache) = {2}

----------------------------------------------------------------------------
(* C25: the store never holds two entries of one key; a miss on a key that
   has a stale entry removes that entry and appends the new one, which is
   then the last in the order. *)
C25_DeleteThenInsert ==
    /\ \A m, n \in 1..Len(cache) : cache[m].key = cache[n].key => m = n
    /\ (IsMiss /\ MapHas(last.pre, last.key))
       => /\ MapGet(last.pre, last.key).promise \notin Stored(cache)
          /\ IndexOf(cache, last.key) = Len(cache)
          /\ cache[Len(cache)] = NewEntry

\* the older of two entries expired and was requested again: it is now the
\* newer of the two
C25_Witness ==
    /\ IsMiss
    /\ Len(last.pre) = 2
    /\ last.pre[1].key = last.key
    /\ Len(cache) = 2
    /\ cache[1] = last.pre[2]
    /\ cache[2] = NewEntry

----------------------------------------------------------------------------
(* C26: a miss on a key whose stale entry is in a store that holds
   maxCacheSize entries replaces that entry only: the other entries stay, in
   their order, and the store still holds maxCacheSize entries. *)
C26_ReplaceAtCapacity ==
    (IsMiss /\ Len(last.pre) = maxCacheSize /\ MapHas(last.pre, last.key))
    => /\ Without(cache, last.key) = Without(last.pre, last.key)
       /\ Len(Without(cache, last.key)) = maxCacheSize - 1
       /\ Len(cache) = maxCacheSize

\* a full store of two whose newer entry expired and was requested again:
\* the older entry was not evicted
C26_Witness ==
    /\ IsMiss
    /\ maxCacheSize = 2
    /\ Len(last.pre) = 2
    /\ last.pre[2].key = last.key
    /\ cache = <<last.pre[1], NewEntry>>

----------------------------------------------------------------------------
\* the n-th entry of the store is in the store after the step
Survives(n) == \E m \in 1..Len(cache') : cache'[m] = cache[n]

\* the step is a get or memo that started an operation
MissStep == last'.call \in {"get", "memo"} /\ last'.started # 0

\* the step is one of the three that remove the n-th entry: an invalidation
\* of its key or of everything, a miss on its own key, or a miss on a key
\* with no entry while the store is full and the entry is the oldest
Removes(n) ==
    \/ last'.call = "invalidate" /\ last'.key \in {cache[n].key, Wildcard}
    \/ MissStep /\ last'.key = cache[n].key
    \/ /\ MissStep
       /\ ~MapHas(cache, last'.key)
       /\ Len(cache) = maxCacheSize
       /\ n = 1

\* the entries that are in the store before and after the step are in the
\* same order
KeepsOrder ==
    SelectSeq(cache, LAMBDA e : \E m \in 1..Len(cache') : cache'[m] = e)
        = SelectSeq(cache', LAMBDA e : \E n \in 1..Len(cache) : cache[n] = e)

\* client context, and the entry is older than every window of the model
Expired(e) == ~isServer /\ now - e.timestamp >= MaxCacheTime * MsPerSec

(* C27: a step in which only time passes leaves the store as it was; an
   expired entry leaves the store only by a miss on its own key, by eviction
   as the oldest entry of a full store, or by invalidation, and until then
   keeps its place; a full store of expired entries is still full: a miss on
   a new key evicts the oldest. *)
C27_LazyExpiry ==
    [][/\ now' # now => cache' = cache
       /\ \A n \in 1..Len(cache) :
              (Expired(cache[n]) /\ ~Survives(n)) => Removes(n)
       /\ KeepsOrder
       /\ (/\ MissStep /\ ~MapHas(cache, last'.key)
           /\ Len(cache) = maxCacheSize
           /\ \A n \in 1..Len(cache) : Expired(cache[n]))
          => /\ Len(cache') = maxCacheSize
             /\ SubSeq(cache', 1, Len(cache') - 1) = DropFirst(cache)]_vars

\* time has just passed, and the two entries of the store, both expired,
\* are still there
C27_Witness ==
    /\ last.call = "tick"
    /\ Len(cache) = 2
    /\ Expired(cache[1])
    /\ Expired(cache[2])

----------------------------------------------------------------------------
(* C28: a step in which an operation resolves or rejects leaves the store as
   it was, whether the operation's entry is stored or not; an entry leaves
   the store only by invalidation, by eviction as the oldest on an insert
   into a full store, or by a miss on its own key. *)
C28_SettlementFrame ==
    [][/\ promises' # promises /\ Len(promises') = Len(promises)
          => cache' = cache /\ view' = view
       /\ \A n \in 1..Len(cache) : ~Survives(n) => Removes(n)]_vars

\* an operation whose entry was evicted has settled, the operation of the
\* entry in the store has just rejected, and the entry is there
C28_Witness ==
    /\ last.call = "settle"
    /\ Len(promises) = 2
    /\ promises[1].key # promises[2].key
    /\ Stored(cache) = {2}
    /\ promises[1].state \in {"resolved", "rejected"}
    /\ promises[2].state = "rejected"

----------------------------------------------------------------------------
(* C29: an entry's timestamp is the time of the call that stored it, and no
   later step changes it, the settlement of its operation included; in
   client context a get or memo for a key whose entry is as old as the
   window or older starts a second operation, whether the first has settled
   or not. *)
C29_ValidityFromCreation ==
    [][/\ \A m \in 1..Len(cache') :
              \/ \E n \in 1..Len(cache) : cache[n] = cache'[m]
              \/ /\ MissStep
                 /\ Len(promises') = Len(promises) + 1
                 /\ cache'[m] = [key |-> last'.key,
                                 promise |-> Len(promises'),
                                 timestamp |-> now]
       /\ (/\ last'.call \in {"get", "memo"} /\ last'.ok
           /\ ~isServer
           /\ MapHas(cache, last'.key)
           /\ now - MapGet(cache, last'.key).timestamp >= last'.ct * MsPerSec)
          => /\ Len(promises') = Len(promises) + 1
             /\ last'.started = Len(promises')
             /\ last'.ret = Len(promises')]_vars

\* a second operation for a key was started a full window after the first,
\* which is still pending; both are in flight
C29_Witness ==
    /\ ~isServer
    /\ IsMiss
    /\ last.ct = MaxCacheTime
    /\ MapHas(last.pre, last.key)
    /\ AgeBefore(last.key) = MaxCacheTime * MsPerSec
    /\ promises[MapGet(last.pre, last.key).promise].state = "pending"
    /\ promises[last.started].state = "pending"
    /\ promises[last.started].key = last.key

----------------------------------------------------------------------------
(* C30: the store lists its entries in the order their operations were
   registered, whatever the order the operations settle in; the entry a full
   store gives up on an insert is the earliest registered of those present,
   pending or not. *)
C30_InsertionOrder ==
    /\ \A m, n \in 1..Len(cache) :
           m < n => /\ cache[m].promise < cache[n].promise
                    /\ cache[m].timestamp <= cache[n].timestamp
    /\ (IsMiss /\ ~MapHas(last.pre, last.key) /\ Len(last.pre) = maxCacheSize)
       => /\ cache = Append(DropFirst(last.pre), NewEntry)
          /\ \A n \in 1..Len(last.pre) :
                 last.pre[1].promise <= last.pre[n].promise

\* the full store gave up its first entry, whose operation is still
\* pending, and kept the second, whose operation has settled
C30_Witness ==
    /\ IsMiss
    /\ Len(last.pre) = 2
    /\ promises[last.pre[1].promise].state = "pending"
    /\ promises[last.pre[2].promise].state # "pending"
    /\ cache = <<last.pre[2], NewEntry>>

----------------------------------------------------------------------------
\* the step is a get or a mutating verb called with responseType rt
CalledWith(rt) ==
    \/ \E k \in OutcomeKeys, ct \in CacheTimeArgs : Get(k, rt, ct)
    \/ \E m \in Verbs, k \in OutcomeKeys : Mutate(m, k, rt)

(* C31: a get or a mutating verb called with one of the five documented
   response types passes validation and goes on to the store or the network;
   called with any other value it is rejected as unrecognized. *)
C31_DocumentedTypesAccepted ==
    [][\A rt \in AllRespTypeArgs \ {""} :
          CalledWith(rt) => (last'.ok <=> rt \in ResponseTypes)]_vars

----------------------------------------------------------------------------
(* C33: whether a get is served from the store, and which promise it
   returns, is decided by the path, the context, the time and the window,
   whatever the responseType of the call: with a valid entry for the path it
   returns the stored promise, made with the responseType of the call that
   started it, and starts nothing; without one it starts an operation. *)
C33_KeyIsPathAlone ==
    [][\A k \in OutcomeKeys, rt \in ResponseTypes, ct \in CacheTimeArgs :
          Get(k, rt, ct)
          => IF /\ MapHas(cache, k)
                /\ \/ isServer
                   \/ now - MapGet(cache, k).timestamp < WindowOf(ct) * MsPerSec
             THEN /\ last'.ok
                  /\ last'.started = 0
                  /\ last'.ret = MapGet(cache, k).promise
                  /\ promises' = promises
                  /\ cache' = cache
             ELSE /\ last'.ok
                  /\ last'.started = Len(promises) + 1
                  /\ promises'[Len(promises) + 1].rt = rt]_vars

----------------------------------------------------------------------------
(* C32: a get or memo that starts an operation for a string, the reserved
   "*" included, changes the store by no more than this: the string's own
   entry is removed, the oldest of the others is removed when they fill the
   store, and the new entry is appended; the others keep their promise,
   timestamp and order. *)
C32_BoundedEffect ==
    IsMiss
    => LET others == Without(last.pre, last.key)
       IN  \/ cache = Append(others, NewEntry)
           \/ /\ Len(others) = maxCacheSize
              /\ cache = Append(DropFirst(others), NewEntry)

----------------------------------------------------------------------------
(* C34: after a get or memo that started an operation the store holds an
   entry of the key with that operation, stamped with the time of the call,
   whatever the window of the call, 0 in client context included; and a
   client request with a positive window for a key whose entry is younger
   than that window is served the entry's operation, whatever the window of
   the call that made the entry. *)
C34_EveryMissRegisters ==
    /\ IsMiss => /\ MapHas(cache, last.key)
                 /\ MapGet(cache, last.key) = NewEntry
    /\ (/\ IsRequest /\ ~isServer
        /\ last.ct > 0
        /\ MapHas(last.pre, last.key)
        /\ InsideWindow(AgeBefore(last.key), last.ct))
       => /\ last.started = 0
          /\ last.ret = MapGet(last.pre, last.key).promise

\* a client call with window 0 started an operation, and the store holds it
C34_Witness ==
    /\ ~isServer
    /\ IsMiss
    /\ last.ct = 0
    /\ defaultCacheTime = 0
    /\ Stored(cache) = {last.started}

----------------------------------------------------------------------------
(* C35: a get or memo that ends before its operation exists, because the
   producer threw when called or the URL could not be built, rejects and
   leaves the store as it was: no entry added, none evicted, the stale entry
   of the key still there; and no operation was started. *)
C35_FailedMissFrame ==
    [][(last'.call \in {"get", "memo"} /\ ~last'.ok)
       => /\ cache' = cache
          /\ promises' = promises
          /\ view' = view
          /\ last'.started = 0
          /\ last'.ret = 0]_vars

\* a client memo whose producer threw, on a key whose entry had expired:
\* the store is full and the stale entry is in it
C35_Witness ==
    /\ ~isServer
    /\ last.call = "memo"
    /\ ~last.ok
    /\ MapHas(cache, last.key)
    /\ now - MapGet(cache, last.key).timestamp >= MaxCacheTime * MsPerSec
    /\ Len(cache) = maxCacheSize
    /\ cache = last.pre

----------------------------------------------------------------------------
\* the calls on the second instance
PeerCalls == {"peer.get", "peer.memo", "peer.invalidate"}

\* c holds an entry of the key that a call with window ct is served from
ValidIn(c, key, ct) ==
    /\ MapHas(c, key)
    /\ isServer \/ now - MapGet(c, key).timestamp < ct * MsPerSec

(* C36: a call on one instance leaves the store of the other as it was,
   invalidate("*") included; a get or memo is served from the store of its
   own instance only, so that a key with a valid entry in one instance and
   none in the other starts an operation of its own there; no operation is
   in both stores. *)
C36_InstanceIsolation ==
    [][/\ last'.call \in {"get", "memo", "invalidate"} => peer' = peer
       /\ last'.call \in PeerCalls => cache' = cache /\ view' = view
       /\ \A n \in 1..Len(cache'), m \in 1..Len(peer') :
              cache'[n].promise # peer'[m].promise
       /\ (last'.call \in {"get", "memo"} /\ last'.ok)
          => IF ValidIn(cache, last'.key, last'.ct)
             THEN last'.ret = MapGet(cache, last'.key).promise
             ELSE last'.started = Len(promises) + 1
       /\ last'.call \in {"peer.get", "peer.memo"}
          => IF ValidIn(peer, last'.key, last'.ct)
             THEN last'.ret = MapGet(peer, last'.key).promise
             ELSE last'.started = Len(promises) + 1]_vars

\* the second instance was asked for a key the first has a valid entry of:
\* it started its own operation, and each store holds its own
C36_Witness ==
    /\ last.call = "peer.get"
    /\ last.started = 2
    /\ ValidIn(cache, last.key, last.ct)
    /\ cache = <<[key |-> last.key, promise |-> 1, timestamp |-> 0]>>
    /\ peer = <<[key |-> last.key, promise |-> 2, timestamp |-> now]>>
    /\ promises[1].state = "pending"

====
